---- MODULE Spec2Model ----
(***************************************************************************)
(* Model of the create-rsa-key subcommand of parsec-tool                   *)
(* (src/subcommands/create_rsa_key.rs).                                    *)
(*                                                                         *)
(* CreateRsaKey::run derives a key policy from the command-line flags,     *)
(* completes a PSA key attributes record, hands it to                      *)
(* BasicClient::psa_generate_key and reports the outcome.  Several         *)
(* invocations of the command are modelled side by side; each one owns     *)
(* its arguments and its locals, as the stack frame of run does.           *)
(***************************************************************************)
EXTENDS Integers, Sequences, FiniteSets, TLC

(***************************************************************************)
(* Bounds of the model.                                                    *)
(***************************************************************************)
NumInvocations == 2

Invocations == 1..NumInvocations

(***************************************************************************)
(* Command-line arguments (struct CreateRsaKey).                           *)
(***************************************************************************)
None == [tag |-> "None"]

Some(n) == [tag |-> "Some", value |-> n]

KeyNames == {"alpha", "beta"}

\* The -k argument of invocation i: two names, so that invocations both share
\* and differ in their key name once there are three of them.
KeyNameOf(i) == IF i % 2 = 1 THEN "alpha" ELSE "beta"

BitsValues == {0, 123, 3072}

BitsArgs == {None} \cup {Some(n) : n \in BitsValues}

CreateRsaKey ==
    [key_name : KeyNames, is_for_signing : BOOLEAN, bits : BitsArgs, oaep : BOOLEAN]

(***************************************************************************)
(* Option::unwrap_or as used for the bits argument.                        *)
(***************************************************************************)
DefaultBits == 2048

unwrap_or_zero_is_absent(opt, default) ==
    IF opt.tag = "Some" /\ opt.value # 0 THEN opt.value ELSE default

unwrap_or_always_default(opt, default) == default

unwrap_or(opt, default) ==
    IF opt.tag = "Some" THEN opt.value ELSE default

(***************************************************************************)
(* UsageFlags: the capability bits of a key and their builder setters.     *)
(* Each setter raises the flag it is named after; run always chains the    *)
(* four signing setters together, or the two encryption setters together.  *)
(***************************************************************************)
FlagNames ==
    {"export", "copy", "cache", "encrypt", "decrypt",
     "sign_message", "verify_message", "sign_hash", "verify_hash", "derive"}

UsageFlagsDefault == [f \in FlagNames |-> FALSE]

set_sign_hash(flags) == [flags EXCEPT !["sign_hash"] = TRUE]

set_verify_hash(flags) == [flags EXCEPT !["verify_hash"] = TRUE]

set_sign_message(flags) == [flags EXCEPT !["sign_message"] = TRUE]

set_verify_message(flags) == [flags EXCEPT !["verify_message"] = TRUE]

set_encrypt(flags) == [flags EXCEPT !["encrypt"] = TRUE]

set_decrypt(flags) == [flags EXCEPT !["decrypt"] = TRUE]

(***************************************************************************)
(* Permitted algorithms, as the Algorithm value `.into()` produces.        *)
(***************************************************************************)
RsaPkcs1v15Sign ==
    [family |-> "AsymmetricSignature", alg |-> "RsaPkcs1v15Sign",
     hash_alg |-> "Specific(Sha256)"]

RsaOaep ==
    [family |-> "AsymmetricEncryption", alg |-> "RsaOaep", hash_alg |-> "Sha256"]

RsaPkcs1v15Crypt ==
    [family |-> "AsymmetricEncryption", alg |-> "RsaPkcs1v15Crypt", hash_alg |-> "none"]

(***************************************************************************)
(* The `let policy = if self.is_for_signing {...} else {...}` expression.  *)
(***************************************************************************)
SigningUsageFlags ==
    set_verify_message(set_sign_message(set_verify_hash(set_sign_hash(UsageFlagsDefault))))

EncryptionUsageFlags == set_decrypt(set_encrypt(UsageFlagsDefault))

derive_policy_swapped_oaep(is_for_signing, oaep) ==
    IF is_for_signing
    THEN [usage_flags |-> SigningUsageFlags, permitted_algorithms |-> RsaPkcs1v15Sign]
    ELSE [usage_flags |-> EncryptionUsageFlags,
          permitted_algorithms |-> IF oaep THEN RsaPkcs1v15Crypt ELSE RsaOaep]

derive_policy_flags_not_reset(is_for_signing, oaep) ==
    IF is_for_signing
    THEN [usage_flags |-> SigningUsageFlags, permitted_algorithms |-> RsaPkcs1v15Sign]
    ELSE [usage_flags |-> set_decrypt(set_encrypt(SigningUsageFlags)),
          permitted_algorithms |-> IF oaep THEN RsaOaep ELSE RsaPkcs1v15Crypt]

derive_policy_oaep_first(is_for_signing, oaep) ==
    IF oaep
    THEN [usage_flags |-> IF is_for_signing THEN SigningUsageFlags
                                            ELSE EncryptionUsageFlags,
          permitted_algorithms |-> RsaOaep]
    ELSE IF is_for_signing
    THEN [usage_flags |-> SigningUsageFlags, permitted_algorithms |-> RsaPkcs1v15Sign]
    ELSE [usage_flags |-> EncryptionUsageFlags, permitted_algorithms |-> RsaPkcs1v15Crypt]

derive_policy(is_for_signing, oaep) ==
    IF is_for_signing
    THEN [usage_flags |-> SigningUsageFlags, permitted_algorithms |-> RsaPkcs1v15Sign]
    ELSE [usage_flags |-> EncryptionUsageFlags,
          permitted_algorithms |-> IF oaep THEN RsaOaep ELSE RsaPkcs1v15Crypt]

BranchMessage(is_for_signing) ==
    IF is_for_signing THEN [msg |-> "Creating RSA signing key...", key_name |-> "-"]
                      ELSE [msg |-> "Creating RSA encryption key...", key_name |-> "-"]

(***************************************************************************)
(* The `let attributes = Attributes {...}` expression.                     *)
(***************************************************************************)
build_attributes_volatile(policy_, bits) ==
    [lifetime |-> "Volatile", key_type |-> "RsaKeyPair",
     bits |-> unwrap_or(bits, DefaultBits), policy |-> policy_]

build_attributes(policy_, bits) ==
    [lifetime |-> "Persistent", key_type |-> "RsaKeyPair",
     bits |-> unwrap_or(bits, DefaultBits), policy |-> policy_]

(***************************************************************************)
(* The key-management client and the `?` on its result.                    *)
(***************************************************************************)
ClientErrors == {"PsaErrorAlreadyExists", "PsaErrorNotSupported"}

Ok == [tag |-> "Ok"]

Err(e) == [tag |-> "Err", error |-> e]

Responses == {Ok} \cup {Err(e) : e \in ClientErrors}

FromClientError(e) == [kind |-> "ParsecClientError", source |-> e]

CreatedMessage(name) == [msg |-> "Key created", key_name |-> name]

(***************************************************************************)
(* State.                                                                  *)
(***************************************************************************)
Unset == [tag |-> "Unset"]

VARIABLES
    args,        \* args[i]: the CreateRsaKey struct of invocation i (&self)
    pc,          \* pc[i]: position of invocation i inside run
    policy,      \* policy[i]: the local `policy`
    attributes,  \* attributes[i]: the local `attributes`
    calls,       \* calls[i]: psa_generate_key calls issued by invocation i
    response,    \* response[i]: what psa_generate_key returned
    log,         \* log[i]: info! lines emitted by invocation i
    result       \* result[i]: the value run returned

vars == <<args, pc, policy, attributes, calls, response, log, result>>

Init ==
    /\ args \in [Invocations -> CreateRsaKey]
    /\ \A i \in Invocations : args[i].key_name = KeyNameOf(i)
    /\ pc = [i \in Invocations |-> "derive"]
    /\ policy = [i \in Invocations |-> Unset]
    /\ attributes = [i \in Invocations |-> Unset]
    /\ calls = [i \in Invocations |-> <<>>]
    /\ response = [i \in Invocations |-> Unset]
    /\ log = [i \in Invocations |-> <<>>]
    /\ result = [i \in Invocations |-> Unset]

DerivePolicy(i) ==
    /\ pc[i] = "derive"
    /\ policy' = [policy EXCEPT ![i] = derive_policy(args[i].is_for_signing, args[i].oaep)]
    /\ log' = [log EXCEPT ![i] = Append(@, BranchMessage(args[i].is_for_signing))]
    /\ pc' = [pc EXCEPT ![i] = "build"]
    /\ UNCHANGED <<args, attributes, calls, response, result>>

BuildAttributes_shared_policy(i) ==
    /\ pc[i] = "build"
    /\ attributes' = [attributes EXCEPT ![i] = build_attributes(policy[1], args[i].bits)]
    /\ pc' = [pc EXCEPT ![i] = "generate"]
    /\ UNCHANGED <<args, policy, calls, response, log, result>>

BuildAttributes(i) ==
    /\ pc[i] = "build"
    /\ attributes' = [attributes EXCEPT ![i] = build_attributes(policy[i], args[i].bits)]
    /\ pc' = [pc EXCEPT ![i] = "generate"]
    /\ UNCHANGED <<args, policy, calls, response, log, result>>

GenerateKey_error_ignored(i) ==
    /\ pc[i] = "generate"
    /\ \E r \in Responses :
         /\ calls' = [calls EXCEPT ![i] =
                Append(@, [key_name |-> args[i].key_name, attributes |-> attributes[i]])]
         /\ response' = [response EXCEPT ![i] = r]
         /\ pc' = [pc EXCEPT ![i] = "log"]
         /\ UNCHANGED result
    /\ UNCHANGED <<args, policy, attributes, log>>

GenerateKey_retry(i) ==
    /\ pc[i] = "generate"
    /\ \E r \in Responses :
         /\ calls' = [calls EXCEPT ![i] =
                Append(@, [key_name |-> args[i].key_name, attributes |-> attributes[i]])]
         /\ response' = [response EXCEPT ![i] = r]
         /\ IF r.tag = "Err" /\ Len(calls[i]) = 0
            THEN UNCHANGED <<pc, result>>
            ELSE IF r.tag = "Err"
            THEN /\ result' = [result EXCEPT ![i] = Err(FromClientError(r.error))]
                 /\ pc' = [pc EXCEPT ![i] = "done"]
            ELSE /\ pc' = [pc EXCEPT ![i] = "log"]
                 /\ UNCHANGED result
    /\ UNCHANGED <<args, policy, attributes, log>>

GenerateKey(i) ==
    /\ pc[i] = "generate"
    /\ \E r \in Responses :
         /\ calls' = [calls EXCEPT ![i] =
                Append(@, [key_name |-> args[i].key_name, attributes |-> attributes[i]])]
         /\ response' = [response EXCEPT ![i] = r]
         /\ IF r.tag = "Err"
            THEN /\ result' = [result EXCEPT ![i] = Err(FromClientError(r.error))]
                 /\ pc' = [pc EXCEPT ![i] = "done"]
            ELSE /\ pc' = [pc EXCEPT ![i] = "log"]
                 /\ UNCHANGED result
    /\ UNCHANGED <<args, policy, attributes, log>>

LogCreated(i) ==
    /\ pc[i] = "log"
    /\ log' = [log EXCEPT ![i] = Append(@, CreatedMessage(args[i].key_name))]
    /\ result' = [result EXCEPT ![i] = Ok]
    /\ pc' = [pc EXCEPT ![i] = "done"]
    /\ UNCHANGED <<args, policy, attributes, calls, response>>

Next ==
    \E i \in Invocations :
        \/ DerivePolicy(i)
        \/ BuildAttributes(i)
        \/ GenerateKey(i)
        \/ LogCreated(i)

Spec == Init /\ [][Next]_vars

(***************************************************************************)
(* Helpers of the properties below.                                        *)
(***************************************************************************)
SigningFlagNames == {"sign_hash", "verify_hash", "sign_message", "verify_message"}

EncryptionFlagNames == {"encrypt", "decrypt"}

\* The flag records in which exactly the named flags are set.
OnlySigningFlags == [f \in FlagNames |-> f \in SigningFlagNames]

OnlyEncryptionFlags == [f \in FlagNames |-> f \in EncryptionFlagNames]

Derived(i) == policy[i] # Unset

Built(i) == attributes[i] # Unset

Called(i) == Len(calls[i]) > 0

Returned(i) == result[i] # Unset

InLog(i, m) == \E k \in 1..Len(log[i]) : log[i][k] = m

IsSignPkcs1v15Sha256(a) ==
    /\ a.family = "AsymmetricSignature"
    /\ a.alg = "RsaPkcs1v15Sign"
    /\ a.hash_alg = "Specific(Sha256)"

IsOaepSha256(a) ==
    /\ a.family = "AsymmetricEncryption"
    /\ a.alg = "RsaOaep"
    /\ a.hash_alg = "Sha256"

IsPkcs1v15Crypt(a) ==
    /\ a.family = "AsymmetricEncryption"
    /\ a.alg = "RsaPkcs1v15Crypt"

\* C1: for each of the four (is_for_signing, oaep) combinations the policy is
\* derived without failure and is exactly the specified one: signing gives the
\* four signing flags with RSA PKCS#1 v1.5 signature over SHA-256; encryption
\* gives {encrypt, decrypt} with RSA OAEP over SHA-256 when oaep is set and
\* with RSA PKCS#1 v1.5 encryption otherwise.
C1_PolicyTable ==
    \A i \in Invocations :
        /\ pc[i] # "derive" => Derived(i)
        /\ Derived(i) =>
            LET a == args[i]
                p == policy[i]
            IN  /\ a.is_for_signing =>
                    /\ p.usage_flags = OnlySigningFlags
                    /\ IsSignPkcs1v15Sha256(p.permitted_algorithms)
                /\ (~a.is_for_signing /\ a.oaep) =>
                    /\ p.usage_flags = OnlyEncryptionFlags
                    /\ IsOaepSha256(p.permitted_algorithms)
                /\ (~a.is_for_signing /\ ~a.oaep) =>
                    /\ p.usage_flags = OnlyEncryptionFlags
                    /\ IsPkcs1v15Crypt(p.permitted_algorithms)

C1_Witness ==
    \E i, j \in Invocations :
        /\ Derived(i) /\ ~args[i].is_for_signing /\ args[i].oaep
        /\ Derived(j) /\ args[j].is_for_signing

\* C2: every policy produced (as a local, inside the attributes record and in
\* the record handed to the client) belongs to exactly one family: the four
\* signing flags with a signature algorithm, or {encrypt, decrypt} with an
\* encryption algorithm; no other flag is set and the families never mix.
ConsistentPolicy(p) ==
    \/ /\ p.usage_flags = OnlySigningFlags
       /\ p.permitted_algorithms.family = "AsymmetricSignature"
    \/ /\ p.usage_flags = OnlyEncryptionFlags
       /\ p.permitted_algorithms.family = "AsymmetricEncryption"

C2_MutualExclusivity ==
    \A i \in Invocations :
        /\ Derived(i) => ConsistentPolicy(policy[i])
        /\ Built(i) => ConsistentPolicy(attributes[i].policy)
        /\ \A k \in 1..Len(calls[i]) : ConsistentPolicy(calls[i][k].attributes.policy)

C2_Witness ==
    \E i, j \in Invocations :
        /\ Called(i) /\ ~args[i].is_for_signing
        /\ calls[i][1].attributes.policy.usage_flags = OnlyEncryptionFlags
        /\ Called(j) /\ args[j].is_for_signing
        /\ calls[j][1].attributes.policy.usage_flags = OnlySigningFlags

\* C3: for a signing key the oaep flag changes nothing: two signing
\* invocations with the same bits argument build the same policy and the same
\* attributes record whatever their oaep flags and key names; the combination
\* is not rejected locally (run fails only if the client call failed); and
\* (signing, oaep, bits = 3072) gives bits 3072 with PKCS#1 v1.5 / SHA-256.
C3_OaepIgnoredWhenSigning ==
    \A i, j \in Invocations :
        /\ (args[i].is_for_signing /\ args[j].is_for_signing
              /\ args[i].bits = args[j].bits /\ Built(i) /\ Built(j)) =>
            /\ policy[i] = policy[j]
            /\ attributes[i] = attributes[j]
        /\ (args[i].is_for_signing /\ args[i].oaep /\ Returned(i)
              /\ result[i].tag = "Err") => response[i].tag = "Err"
        /\ (args[i].is_for_signing /\ args[i].oaep /\ args[i].bits = Some(3072)
              /\ Built(i)) =>
            /\ attributes[i].bits = 3072
            /\ IsSignPkcs1v15Sha256(attributes[i].policy.permitted_algorithms)
            /\ attributes[i].policy.usage_flags = OnlySigningFlags

C3_Witness ==
    \E i, j \in Invocations :
        /\ args[i].is_for_signing /\ args[i].oaep /\ args[i].bits = Some(3072)
        /\ args[j].is_for_signing /\ ~args[j].oaep /\ args[j].bits = Some(3072)
        /\ Built(j) /\ attributes[i] = attributes[j]
        /\ result[i] = Ok

\* C4: the bits field is 2048 when no bit length is supplied and is the
\* supplied n, unchanged, for every positive n (123 included), whatever the
\* other flags; the record reaches the client with that size, no size being
\* rejected, clamped or rounded before the call.
ExpectedPositiveBits(i, b) ==
    /\ args[i].bits = None => b = 2048
    /\ (args[i].bits.tag = "Some" /\ args[i].bits.value > 0) => b = args[i].bits.value

C4_BitsDefaultAndPassThrough ==
    \A i \in Invocations :
        /\ Built(i) => ExpectedPositiveBits(i, attributes[i].bits)
        /\ pc[i] \in {"log", "done"} =>
            /\ Called(i)
            /\ ExpectedPositiveBits(i, calls[i][1].attributes.bits)

C4_Witness ==
    \E i, j \in Invocations :
        /\ args[i].bits = None /\ Called(i) /\ calls[i][1].attributes.bits = 2048
        /\ args[j].bits = Some(123) /\ Called(j) /\ calls[j][1].attributes.bits = 123

\* C5: every attributes record built, and every record handed to the client,
\* has lifetime Persistent and key type RsaKeyPair, for all inputs.
C5_LifetimeAndKeyType ==
    \A i \in Invocations :
        /\ Built(i) =>
            /\ attributes[i].lifetime = "Persistent"
            /\ attributes[i].key_type = "RsaKeyPair"
        /\ \A k \in 1..Len(calls[i]) :
            /\ calls[i][k].attributes.lifetime = "Persistent"
            /\ calls[i][k].attributes.key_type = "RsaKeyPair"

C5_Witness ==
    \E i, j \in Invocations :
        /\ Called(i) /\ args[i].is_for_signing /\ args[i].bits = None
        /\ calls[i][1].attributes.lifetime = "Persistent"
        /\ Called(j) /\ ~args[j].is_for_signing /\ args[j].bits # None
        /\ calls[j][1].attributes.key_type = "RsaKeyPair"

\* C6: (module documentation) the key created is 2048 bits long, and by
\* default it is an encryption key for RSA PKCS#1 v1.5.
C6_KeyIs2048Bits ==
    \A i \in Invocations :
        \A k \in 1..Len(calls[i]) :
            /\ calls[i][k].attributes.bits = 2048
            /\ (~args[i].is_for_signing /\ ~args[i].oaep) =>
                /\ calls[i][k].attributes.policy.usage_flags = OnlyEncryptionFlags
                /\ IsPkcs1v15Crypt(calls[i][k].attributes.policy.permitted_algorithms)

\* C7: deriving and building never fail; run returns an error exactly when
\* psa_generate_key failed, the error it returns carries the client's error
\* unchanged, the call is not retried and "Key created" is not logged; run
\* returns Ok exactly when the call succeeded.
C7_ErrorPropagation ==
    \A i \in Invocations :
        /\ pc[i] \in {"derive", "build", "generate"} => ~Returned(i)
        /\ Returned(i) <=> pc[i] = "done"
        /\ response[i] # Unset /\ response[i].tag = "Err" =>
            /\ Returned(i)
            /\ result[i] = Err(FromClientError(response[i].error))
            /\ result[i].error.source = response[i].error
            /\ Len(calls[i]) = 1
            /\ ~InLog(i, CreatedMessage(args[i].key_name))
        /\ Returned(i) =>
            /\ result[i].tag \in {"Ok", "Err"}
            /\ response[i] # Unset
            /\ result[i].tag = response[i].tag

C7_Witness ==
    \E i, j \in Invocations :
        /\ response[i] = Err("PsaErrorNotSupported")
        /\ result[i] = Err(FromClientError("PsaErrorNotSupported"))
        /\ response[j] = Ok /\ result[j] = Ok

\* C8: within an invocation the policy is derived first, then the attributes
\* record is completed from it, then psa_generate_key is called exactly once
\* with the user's key name and that record, and "Key created" is logged only
\* after that call succeeded; once built, the record never changes and no
\* second call is made.
C8_OrderInv ==
    \A i \in Invocations :
        /\ Built(i) => Derived(i) /\ attributes[i].policy = policy[i]
        /\ Called(i) =>
            /\ Built(i)
            /\ calls[i] = <<[key_name |-> args[i].key_name, attributes |-> attributes[i]]>>
        /\ pc[i] \in {"log", "done"} => Len(calls[i]) = 1
        /\ Len(log[i]) > 0 => Derived(i) /\ log[i][1] = BranchMessage(args[i].is_for_signing)
        /\ Len(log[i]) <= 2
        /\ Len(log[i]) = 2 =>
            /\ log[i][2] = CreatedMessage(args[i].key_name)
            /\ Len(calls[i]) = 1
            /\ response[i] = Ok

C8_OrderStep ==
    \A i \in Invocations :
        /\ Derived(i) => policy'[i] = policy[i]
        /\ Built(i) => attributes'[i] = attributes[i]
        /\ Called(i) => calls'[i] = calls[i]
        /\ args'[i] = args[i]

C8_OrderingAndSingleUse == [](C8_OrderInv) /\ [][C8_OrderStep]_vars

C8_Witness ==
    \E i \in Invocations :
        /\ pc[i] = "done" /\ result[i] = Ok
        /\ Len(calls[i]) = 1 /\ calls[i][1].key_name = args[i].key_name
        /\ log[i] = <<BranchMessage(args[i].is_for_signing), CreatedMessage(args[i].key_name)>>

\* C9: under every interleaving each invocation's attributes record (and the
\* record it hands to the client) is the one its own arguments give when run
\* alone, and a step of one invocation leaves the locals of every other
\* invocation untouched.
RunAlone(a) == build_attributes(derive_policy(a.is_for_signing, a.oaep), a.bits)

C9_IndependentInv ==
    \A i \in Invocations :
        /\ Built(i) => attributes[i] = RunAlone(args[i])
        /\ \A k \in 1..Len(calls[i]) : calls[i][k].attributes = RunAlone(args[i])

C9_IndependentStep ==
    \A i \in Invocations :
        pc'[i] = pc[i] =>
            /\ policy'[i] = policy[i]
            /\ attributes'[i] = attributes[i]
            /\ calls'[i] = calls[i]
            /\ log'[i] = log[i]
            /\ result'[i] = result[i]

C9_ConcurrentIndependence == [](C9_IndependentInv) /\ [][C9_IndependentStep]_vars

C9_Witness ==
    \E i, j \in Invocations :
        /\ i # j
        /\ args[i].is_for_signing # args[j].is_for_signing
        /\ args[i].bits # args[j].bits
        /\ pc[i] = "generate" /\ pc[j] = "generate"
        /\ attributes[i] = RunAlone(args[i])
        /\ attributes[j] = RunAlone(args[j])
        /\ attributes[i] # attributes[j]

\* C10: an explicit bit length of zero is kept: the record carries bits = 0
\* and reaches psa_generate_key with bits = 0; the 2048 default is used only
\* when the bit length is absent.
C10_ZeroBitsKept ==
    \A i \in Invocations :
        args[i].bits = Some(0) =>
            /\ Built(i) => attributes[i].bits = 0
            /\ \A k \in 1..Len(calls[i]) : calls[i][k].attributes.bits = 0

C10_Witness ==
    \E i \in Invocations :
        /\ args[i].bits = Some(0)
        /\ Called(i)
        /\ calls[i][1].attributes.bits = 0

====
